---- MODULE Spec2Model ----
(***************************************************************************)
(* Point-cloud file I/O of kiss_matcher (python/kiss_matcher/io_utils.py)  *)
(* and the loader of the example driver, as a state machine over a disk of *)
(* byte files.  A byte is an integer 0..255; text is ASCII.  A float is    *)
(* kept as an integer number of 10^-7 units.                               *)
(***************************************************************************)
EXTENDS Integers, Sequences, FiniteSets, TLC

(* ---------------------------------------------------------------------- *)
(* Bytes and text                                                          *)
(* ---------------------------------------------------------------------- *)

\* The ASCII digits and letters, each in code order.
Digits == << "0", "1", "2", "3", "4", "5", "6", "7", "8", "9" >>

Upper ==
  << "A", "B", "C", "D", "E", "F", "G", "H", "I", "J", "K", "L", "M",
     "N", "O", "P", "Q", "R", "S", "T", "U", "V", "W", "X", "Y", "Z" >>

Lower ==
  << "a", "b", "c", "d", "e", "f", "g", "h", "i", "j", "k", "l", "m",
     "n", "o", "p", "q", "r", "s", "t", "u", "v", "w", "x", "y", "z" >>

IndexIn(seq, c) == CHOOSE i \in 1..Len(seq) : seq[i] = c

\* ord(c) of a one-character string.
Ord(c) ==
  CASE c = "\n" -> 10
    [] c = "\t" -> 9
    [] c = "\r" -> 13
    [] c = " " -> 32
    [] c = "#" -> 35
    [] c = "+" -> 43
    [] c = "-" -> 45
    [] c = "." -> 46
    [] c = "_" -> 95
    [] \E i \in 1..10 : Digits[i] = c -> 47 + IndexIn(Digits, c)
    [] \E i \in 1..26 : Upper[i] = c -> 64 + IndexIn(Upper, c)
    [] \E i \in 1..26 : Lower[i] = c -> 96 + IndexIn(Lower, c)

\* str.encode(utf-8) of an ASCII string given as a tuple of characters.
Enc(s) == [i \in 1..Len(s) |-> Ord(s[i])]

\* The characters str.strip() and str.split() treat as whitespace (ASCII range).
Whitespace == {9, 10, 11, 12, 13, 28, 29, 30, 31, 32}

\* bytes.decode(utf-8) succeeds; the model's files hold no multi-byte
\* sequence, so a byte above 127 is an invalid start byte.
Utf8Decodable(bs) == \A i \in 1..Len(bs) : bs[i] < 128

RECURSIVE LStrip(_)
LStrip(s) == IF s # << >> /\ Head(s) \in Whitespace THEN LStrip(Tail(s)) ELSE s

RECURSIVE RStrip(_)
RStrip(s) ==
  IF s # << >> /\ s[Len(s)] \in Whitespace THEN RStrip(SubSeq(s, 1, Len(s) - 1)) ELSE s

\* str.strip()
Strip(s) == RStrip(LStrip(s))

\* str.startswith(p)
StartsWith(s, p) == Len(s) >= Len(p) /\ SubSeq(s, 1, Len(p)) = p

\* str.endswith(p)
EndsWith(s, p) == Len(s) >= Len(p) /\ SubSeq(s, Len(s) - Len(p) + 1, Len(s)) = p

\* Length of the leading run of non-whitespace characters of s.
RECURSIVE WordLen(_)
WordLen(s) == IF s = << >> \/ Head(s) \in Whitespace THEN 0 ELSE 1 + WordLen(Tail(s))

\* str.split(): the maximal runs of non-whitespace characters, in order.
\* (The recursions over strings are functions: a function is applied to the
\* value of its argument, which is then worked out once per call.)
SplitFrom[s \in Seq(Nat)] ==
  LET t == LStrip(s)
      n == WordLen(t)
  IN  IF t = << >> THEN << >>
      ELSE << SubSeq(t, 1, n) >> \o SplitFrom[SubSeq(t, n + 1, Len(t))]

Split(s) == SplitFrom[s]

\* Position of the first line feed of bs at or after byte index i (1-based),
\* or 0 when there is none.
RECURSIVE FindLF(_, _)
FindLF(bs, i) ==
  IF i > Len(bs) THEN 0 ELSE IF bs[i] = 10 THEN i ELSE FindLF(bs, i + 1)

\* f.readline() of a file opened rb with the cursor at offset pos (0-based):
\* the bytes up to and including the next line feed, or up to the end of the file.
ReadLine(bs, pos) ==
  LET lf == FindLF(bs, pos + 1)
  IN  IF pos >= Len(bs) THEN << >>
      ELSE SubSeq(bs, pos + 1, IF lf = 0 THEN Len(bs) ELSE lf)

\* f.read(n) at offset pos: at most n bytes, fewer at the end of the file.
ReadBytes(bs, pos, n) ==
  IF pos >= Len(bs) THEN << >>
  ELSE SubSeq(bs, pos + 1, IF pos + n > Len(bs) THEN Len(bs) ELSE pos + n)

(* ---------------------------------------------------------------------- *)
(* Numbers: int(), float(), the .6f format and struct.unpack of a float32  *)
(* ---------------------------------------------------------------------- *)

\* A float is an integer count of 10^-7: one more decimal than write_pcd prints.
Unit == 10000000

\* The value a float32 outside the modelled range decodes to (magnitude of
\* 2^-7 multiples below 128 are exact; everything else is one far value).
FarValue == 2 * 1000 * 1000 * 1000

IsDigit(b) == b \in 48..57

AllDigits(s) == \A i \in 1..Len(s) : IsDigit(s[i])

\* The number a string of decimal digits denotes.
DigitsValOf[s \in Seq(Nat)] ==
  IF s = << >> THEN 0 ELSE 10 * DigitsValOf[SubSeq(s, 1, Len(s) - 1)] + (s[Len(s)] - 48)

DigitsVal(s) == DigitsValOf[s]

\* s without one leading sign character, and the sign.
Unsigned(s) == IF s # << >> /\ Head(s) \in {43, 45} THEN Tail(s) ELSE s

SignOf(s) == IF s # << >> /\ Head(s) = 45 THEN -1 ELSE 1

\* int(s): ok is FALSE where Python raises ValueError.
ParseIntOf[s \in Seq(Nat)] ==
  LET u == Unsigned(Strip(s))
  IN  IF u # << >> /\ AllDigits(u)
      THEN [ok |-> TRUE, val |-> SignOf(Strip(s)) * DigitsVal(u)]
      ELSE [ok |-> FALSE, val |-> 0]

ParseInt(s) == ParseIntOf[s]

\* Index of the first "." of s, or 0.
RECURSIVE FindDot(_, _)
FindDot(s, i) == IF i > Len(s) THEN 0 ELSE IF s[i] = 46 THEN i ELSE FindDot(s, i + 1)

\* The first seven fraction digits as a count of 10^-7.
FracVal(f) ==
  LET g == SubSeq(f \o << 48, 48, 48, 48, 48, 48, 48 >>, 1, 7) IN DigitsVal(g)

\* float(s) for plain decimal literals ([sign] digits [. digits] or [sign] . digits);
\* ok is FALSE where Python raises ValueError.  Exponents, inf, nan and
\* underscores are not produced by any file of the model.
ParseFloatOf[s \in Seq(Nat)] ==
  LET t == Strip(s)
      u == Unsigned(t)
      d == FindDot(u, 1)
      ip == IF d = 0 THEN u ELSE SubSeq(u, 1, d - 1)
      fp == IF d = 0 THEN << >> ELSE SubSeq(u, d + 1, Len(u))
  IN  IF AllDigits(ip) /\ AllDigits(fp) /\ (ip # << >> \/ fp # << >>)
      THEN [ok |-> TRUE, val |-> SignOf(t) * (DigitsVal(ip) * Unit + FracVal(fp))]
      ELSE [ok |-> FALSE, val |-> 0]

ParseFloat(s) == ParseFloatOf[s]

\* str(n) of a non-negative integer.
RECURSIVE IntToStr(_)
IntToStr(n) == IF n < 10 THEN << 48 + n >> ELSE IntToStr(n \div 10) \o << 48 + (n % 10) >>

\* n as exactly w decimal digits, zero padded.
RECURSIVE ZeroPad(_, _)
ZeroPad(n, w) == IF w = 0 THEN << >> ELSE ZeroPad(n \div 10, w - 1) \o << 48 + (n % 10) >>

Abs(v) == IF v < 0 THEN -v ELSE v

\* |v| rounded to a count of 10^-6.  No double lies exactly halfway between
\* two such counts: a value whose seventh decimal is a lone 5 stands for a
\* double just above it (up) or just below it.
RoundMicro(v, up) ==
  LET q == Abs(v) \div 10
      r == Abs(v) % 10
  IN  IF r > 5 \/ (r = 5 /\ up) THEN q + 1 ELSE q

\* f"{v:.5f}": one decimal short.
FormatF5(v, up) ==
  LET cent == (Abs(v) + 50) \div 100
  IN  (IF v < 0 THEN << 45 >> ELSE << >>)
        \o IntToStr(cent \div 100000) \o << 46 >> \o ZeroPad(cent % 100000, 5)

\* f"{v:.6f}"
FormatF6(v, up) ==
  LET micro == RoundMicro(v, up)
  IN  (IF v < 0 THEN << 45 >> ELSE << >>)
        \o IntToStr(micro \div 1000000) \o << 46 >> \o ZeroPad(micro % 1000000, 6)

RECURSIVE Pow2(_)
Pow2(n) == IF n = 0 THEN 1 ELSE 2 * Pow2(n - 1)

\* The IEEE-754 binary32 value of four bytes given most significant first.
F32Value(b3, b2, b1, b0) ==
  LET sign == IF b3 >= 128 THEN -1 ELSE 1
      e == (b3 % 128) * 2 + (b2 \div 128)
      m == (b2 % 128) * 65536 + b1 * 256 + b0
      sh == 143 - e
      sig == 8388608 + m
  IN  IF e = 0 /\ m = 0 THEN 0
      ELSE IF sh >= 10 /\ sh <= 23 /\ sig % Pow2(sh) = 0
           THEN sign * (sig \div Pow2(sh)) * 78125
           ELSE sign * FarValue

\* struct.unpack("<f", bs)[0] whatever the byte order asked for.
UnpackLittleOnly(little, bs) ==
  IF Len(bs) # 4 THEN [ok |-> FALSE, val |-> 0]
  ELSE [ok |-> TRUE, val |-> F32Value(bs[4], bs[3], bs[2], bs[1])]

\* struct.unpack(fmt, bs)[0] for fmt "<f" (little = TRUE) or ">f": ok is FALSE
\* where struct.error is raised (bs is not exactly four bytes).
Unpack(little, bs) ==
  IF Len(bs) # 4 THEN [ok |-> FALSE, val |-> 0]
  ELSE [ok |-> TRUE,
        val |-> IF little THEN F32Value(bs[4], bs[3], bs[2], bs[1])
                ELSE F32Value(bs[1], bs[2], bs[3], bs[4])]

\* The floats read by a run of n reads f.read(4) + struct.unpack from offset
\* pos: the values unpacked before the first failing read, the cursor after
\* the last read, and whether all n reads succeeded.
RECURSIVE ReadFloats(_, _, _, _)
ReadFloats(bs, pos, n, little) ==
  IF n = 0 THEN [vals |-> << >>, pos |-> pos, ok |-> TRUE]
  ELSE LET chunk == ReadBytes(bs, pos, 4)
           u == Unpack(little, chunk)
       IN  IF ~u.ok THEN [vals |-> << >>, pos |-> pos + Len(chunk), ok |-> FALSE]
           ELSE CHOOSE r \in { [rest EXCEPT !.vals = << u.val >> \o rest.vals] :
                                  rest \in { ReadFloats(bs, pos + 4, n - 1, little) } } : TRUE

(* ---------------------------------------------------------------------- *)
(* Small Python idioms                                                     *)
(* ---------------------------------------------------------------------- *)

\* dict: a function whose domain is the set of keys set so far.
EmptyDict == [k \in {} |-> 0]

Put(d, k, v) == [x \in DOMAIN d \cup {k} |-> IF x = k THEN v ELSE d[x]]

\* d.get(k, default)
Get(d, k, default) == IF k \in DOMAIN d THEN d[k] ELSE default

\* str.upper()
ToUpper(s) == [j \in 1..Len(s) |-> IF s[j] \in 97..122 THEN s[j] - 32 ELSE s[j]]

\* seq[1:]
Rest(seq) == IF seq = << >> THEN << >> ELSE Tail(seq)

\* x in seq
Contains(seq, x) == \E j \in 1..Len(seq) : seq[j] = x

\* seq.index(x), 0-based, for x in seq
IndexOf(seq, x) == (CHOOSE j \in 1..Len(seq) : seq[j] = x /\ \A k \in 1..(j - 1) : seq[k] # x) - 1

\* [int(x) for x in toks] and [float(x) for x in toks]
ParseInts(toks) == [j \in 1..Len(toks) |-> ParseInt(toks[j])]

ParseFloats(toks) == [j \in 1..Len(toks) |-> ParseFloat(toks[j])]

AllOk(rs) == \A j \in 1..Len(rs) : rs[j].ok

Vals(rs) == [j \in 1..Len(rs) |-> rs[j].val]

RECURSIVE SumLenPlus1(_)
SumLenPlus1(ls) == IF ls = << >> THEN 0 ELSE Len(Head(ls)) + 1 + SumLenPlus1(Tail(ls))

\* Number of empty strings at the end of ls.
RECURSIVE TrailingEmpty(_)
TrailingEmpty(ls) ==
  IF ls # << >> /\ ls[Len(ls)] = << >> THEN 1 + TrailingEmpty(SubSeq(ls, 1, Len(ls) - 1)) ELSE 0

\* Index of the first line terminator (10 or 13) of bs, or 0.
RECURSIVE FindEol(_, _)
FindEol(bs, j) ==
  IF j > Len(bs) THEN 0 ELSE IF bs[j] \in {10, 13} THEN j ELSE FindEol(bs, j + 1)

\* f.readlines() of a file opened in text mode (universal newlines): the lines
\* end at "\n", "\r\n" or "\r"; the terminator is kept as one line feed.
ReadLinesFrom[bs \in Seq(Nat)] ==
  LET e == FindEol(bs, 1)
      n == IF e # 0 /\ bs[e] = 13 /\ e < Len(bs) /\ bs[e + 1] = 10 THEN e + 1 ELSE e
  IN  IF bs = << >> THEN << >>
      ELSE IF e = 0 THEN << bs >>
      ELSE << Append(SubSeq(bs, 1, e - 1), 10) >> \o ReadLinesFrom[SubSeq(bs, n + 1, Len(bs))]

ReadLinesText(bs) == ReadLinesFrom[bs]

(* ---------------------------------------------------------------------- *)
(* Keywords and messages                                                   *)
(* ---------------------------------------------------------------------- *)

KwVERSION == Enc(<< "V", "E", "R", "S", "I", "O", "N" >>)
KwFIELDS == Enc(<< "F", "I", "E", "L", "D", "S" >>)
KwSIZE == Enc(<< "S", "I", "Z", "E" >>)
KwTYPE == Enc(<< "T", "Y", "P", "E" >>)
KwCOUNT == Enc(<< "C", "O", "U", "N", "T" >>)
KwWIDTH == Enc(<< "W", "I", "D", "T", "H" >>)
KwHEIGHT == Enc(<< "H", "E", "I", "G", "H", "T" >>)
KwVIEWPOINT == Enc(<< "V", "I", "E", "W", "P", "O", "I", "N", "T" >>)
KwPOINTS == Enc(<< "P", "O", "I", "N", "T", "S" >>)
KwDATA == Enc(<< "D", "A", "T", "A" >>)
StrASCII == Enc(<< "A", "S", "C", "I", "I" >>)
StrBINARY == Enc(<< "B", "I", "N", "A", "R", "Y" >>)
StrAscii == Enc(<< "a", "s", "c", "i", "i" >>)
StrBinary == Enc(<< "b", "i", "n", "a", "r", "y" >>)
StrX == Enc(<< "x" >>)
StrY == Enc(<< "y" >>)
StrZ == Enc(<< "z" >>)
StrEndHeader == Enc(<< "e", "n", "d", "_", "h", "e", "a", "d", "e", "r" >>)
StrElementVertex ==
  Enc(<< "e", "l", "e", "m", "e", "n", "t", " ", "v", "e", "r", "t", "e", "x" >>)
StrFormat == Enc(<< "f", "o", "r", "m", "a", "t" >>)
StrPropertyFloat ==
  Enc(<< "p", "r", "o", "p", "e", "r", "t", "y", " ", "f", "l", "o", "a", "t" >>)
StrPropertyDouble ==
  Enc(<< "p", "r", "o", "p", "e", "r", "t", "y", " ", "d", "o", "u", "b", "l", "e" >>)
StrLittle ==
  Enc(<< "b", "i", "n", "a", "r", "y", "_", "l", "i", "t", "t", "l", "e", "_",
         "e", "n", "d", "i", "a", "n" >>)
StrBig ==
  Enc(<< "b", "i", "n", "a", "r", "y", "_", "b", "i", "g", "_", "e", "n", "d", "i", "a", "n" >>)
ExtBin == Enc(<< ".", "b", "i", "n" >>)
ExtPcd == Enc(<< ".", "p", "c", "d" >>)
ExtPly == Enc(<< ".", "p", "l", "y" >>)

\* The outcome of a call: the returned array, or the exception raised.
Returned(op, p, pts) ==
  [op |-> op, path |-> p, kind |-> "return", exc |-> "", msg |-> "", points |-> pts]

Raised(op, p, exc, msg) ==
  [op |-> op, path |-> p, kind |-> "raise", exc |-> exc, msg |-> msg, points |-> << >>]

(* ---------------------------------------------------------------------- *)
(* write_pcd and read_bin                                                  *)
(* ---------------------------------------------------------------------- *)

\* The three literal pieces of the header f-string of write_pcd, around the
\* two {num_points} fields.
HeaderUpToWidth ==
  Enc(<<
    "#", " ", ".", "P", "C", "D", " ", "v", "0", ".", "7", " ", "-", " ", "P", "o", "i",
    "n", "t", " ", "C", "l", "o", "u", "d", " ", "D", "a", "t", "a", " ", "f", "i", "l",
    "e", " ", "f", "o", "r", "m", "a", "t", "\n", "V", "E", "R", "S", "I", "O", "N", " ",
    "0", ".", "7", "\n", "F", "I", "E", "L", "D", "S", " ", "x", " ", "y", " ", "z", "\n",
    "S", "I", "Z", "E", " ", "4", " ", "4", " ", "4", "\n", "T", "Y", "P", "E", " ", "F",
    " ", "F", " ", "F", "\n", "C", "O", "U", "N", "T", " ", "1", " ", "1", " ", "1", "\n",
    "W", "I", "D", "T", "H", " " >>)

HeaderUpToPoints ==
  Enc(<<
    "\n", "H", "E", "I", "G", "H", "T", " ", "1", "\n", "V", "I", "E", "W", "P", "O", "I",
    "N", "T", " ", "0", " ", "0", " ", "0", " ", "1", " ", "0", " ", "0", " ", "0", "\n",
    "P", "O", "I", "N", "T", "S", " " >>)

HeaderTail ==
  Enc(<<
    "\n", "D", "A", "T", "A", " ", "a", "s", "c", "i", "i", "\n" >>)

\* f"{point[0]:.6f} {point[1]:.6f} {point[2]:.6f}\n"
PointLine(pt, up) ==
  FormatF6(pt[1], up) \o << 32 >> \o FormatF6(pt[2], up) \o << 32 >> \o FormatF6(pt[3], up)
    \o << 10 >>

RECURSIVE PointLines(_, _)
PointLines(pts, up) ==
  IF pts = << >> THEN << >> ELSE PointLine(Head(pts), up) \o PointLines(Tail(pts), up)

\* The bytes write_pcd(points, pcd_path) leaves in the file.
WritePcdBytes(pts, up) ==
  HeaderUpToWidth \o IntToStr(Len(pts)) \o HeaderUpToPoints \o IntToStr(Len(pts))
    \o HeaderTail \o PointLines(pts, up)

\* np.fromfile(bin_path, dtype=np.float32): the whole float32 items of the
\* file, in file order (little-endian host); trailing bytes short of an item
\* are left out.
FromFile(bs) == ReadFloats(bs, 0, Len(bs) \div 4, TRUE).vals

\* scan.reshape((-1, 4))[:, 1:]: the last three columns instead of the first.
ReshapeRowsLast3(scan) ==
  IF Len(scan) % 4 # 0 THEN [ok |-> FALSE, rows |-> << >>]
  ELSE [ok |-> TRUE,
        rows |-> [r \in 1..(Len(scan) \div 4) |->
                    << scan[4 * (r - 1) + 2], scan[4 * (r - 1) + 3], scan[4 * (r - 1) + 4] >>]]

\* scan.reshape((-1, 4))[:, :3]: row r holds items 4r .. 4r+3; its first three
\* columns are kept.  ok is FALSE where reshape raises ValueError.
ReshapeRows(scan) ==
  IF Len(scan) % 4 # 0 THEN [ok |-> FALSE, rows |-> << >>]
  ELSE [ok |-> TRUE,
        rows |-> [r \in 1..(Len(scan) \div 4) |->
                    << scan[4 * (r - 1) + 1], scan[4 * (r - 1) + 2], scan[4 * (r - 1) + 3] >>]]

(* ---------------------------------------------------------------------- *)
(* read_pcd: one header line                                               *)
(* ---------------------------------------------------------------------- *)

Step(exc, info, brk) == [exc |-> exc, info |-> info, brk |-> brk]

\* int(line_str.split()[1]) stored under key k.
PutInt1(info, k, toks) ==
  IF Len(toks) < 2 THEN Step("IndexError", info, FALSE)
  ELSE IF ~ParseInt(toks[2]).ok THEN Step("ValueError", info, FALSE)
  ELSE Step("", Put(info, k, ParseInt(toks[2]).val), FALSE)

\* [int(x) for x in line_str.split()[1:]] stored under key k.
PutInts(info, k, toks) ==
  IF ~AllOk(ParseInts(Rest(toks))) THEN Step("ValueError", info, FALSE)
  ELSE Step("", Put(info, k, Vals(ParseInts(Rest(toks)))), FALSE)

\* The if/elif chain on one decoded, stripped header line: the exception it
\* raises (or ""), header_info after it, and whether it breaks the loop.
PcdKeyword(line_str, info) ==
  LET toks == Split(line_str)
  IN  IF StartsWith(line_str, KwVERSION) THEN
        IF Len(toks) < 2 THEN Step("IndexError", info, FALSE)
        ELSE Step("", Put(info, "version", toks[2]), FALSE)
      ELSE IF StartsWith(line_str, KwFIELDS) THEN Step("", Put(info, "fields", Rest(toks)), FALSE)
      ELSE IF StartsWith(line_str, KwSIZE) THEN PutInts(info, "size", toks)
      ELSE IF StartsWith(line_str, KwTYPE) THEN Step("", Put(info, "type", Rest(toks)), FALSE)
      ELSE IF StartsWith(line_str, KwCOUNT) THEN PutInts(info, "count", toks)
      ELSE IF StartsWith(line_str, KwWIDTH) THEN PutInt1(info, "width", toks)
      ELSE IF StartsWith(line_str, KwHEIGHT) THEN PutInt1(info, "height", toks)
      ELSE IF StartsWith(line_str, KwVIEWPOINT) THEN
        IF ~AllOk(ParseFloats(Rest(toks))) THEN Step("ValueError", info, FALSE)
        ELSE Step("", Put(info, "viewpoint", Vals(ParseFloats(Rest(toks)))), FALSE)
      ELSE IF StartsWith(line_str, KwPOINTS) THEN PutInt1(info, "points", toks)
      ELSE IF StartsWith(line_str, KwDATA) THEN
        IF Len(toks) < 2 THEN Step("IndexError", info, FALSE)
        ELSE Step("", Put(info, "data", toks[2]), TRUE)
      ELSE Step("", info, FALSE)

\* header_size: sum(len(line.encode(utf-8)) + 1 for line in header_lines)
HeaderSize(hl) == SumLenPlus1(hl)

\* lines[data_start_idx:], data_start_idx one past the first line whose
\* stripped text starts with DATA (0 when there is none).
RECURSIVE AfterDataLine(_, _)
AfterDataLine(ls, all) ==
  IF ls = << >> THEN all
  ELSE IF StartsWith(Strip(Head(ls)), KwDATA) THEN Tail(ls)
  ELSE AfterDataLine(Tail(ls), all)

\* The index counted from one where the name is present.
CoordIndexOneBased(fields, name, dflt) ==
  IF Contains(fields, name) THEN IndexOf(fields, name) + 1 ELSE dflt

\* fields.index(name) if name in fields else dflt
CoordIndex(fields, name, dflt) == IF Contains(fields, name) THEN IndexOf(fields, name) ELSE dflt

(* ---------------------------------------------------------------------- *)
(* read_ply: the pass over the header lines                                *)
(* ---------------------------------------------------------------------- *)

\* The for loop over header_lines: vertex_count, format_type and properties
\* after it, and the exception raised on the way (or "").
RECURSIVE PlyScan(_, _)
PlyScan(hl, acc) ==
  IF hl = << >> \/ acc.exc # "" THEN acc
  ELSE LET line == Head(hl)
           toks == Split(line)
       IN  IF StartsWith(line, StrElementVertex) THEN
             IF ~ParseInt(toks[Len(toks)]).ok THEN [acc EXCEPT !.exc = "ValueError"]
             ELSE PlyScan(Tail(hl), [acc EXCEPT !.vertex_count = ParseInt(toks[Len(toks)]).val])
           ELSE IF StartsWith(line, StrFormat) THEN
             IF Len(toks) < 2 THEN [acc EXCEPT !.exc = "IndexError"]
             ELSE PlyScan(Tail(hl), [acc EXCEPT !.format_type = toks[2]])
           ELSE IF StartsWith(line, StrPropertyFloat) \/ StartsWith(line, StrPropertyDouble) THEN
             PlyScan(Tail(hl), [acc EXCEPT !.properties = Append(@, toks[Len(toks)])])
           ELSE PlyScan(Tail(hl), acc)

PlyDefaults ==
  [exc |-> "", vertex_count |-> 0, format_type |-> StrAscii, properties |-> << >>]

\* None, where an index is expected.
None == -1

\* properties.index(name) if name in properties else None
PlyIndex(props, name) == IF Contains(props, name) THEN IndexOf(props, name) ELSE None

\* "and" in the place of "or": rejects only when all three are absent.
MissingCoordAll(x_idx, y_idx, z_idx) == x_idx = None /\ y_idx = None /\ z_idx = None

\* x_idx is None or y_idx is None or z_idx is None
MissingCoord(x_idx, y_idx, z_idx) == x_idx = None \/ y_idx = None \/ z_idx = None

(* ---------------------------------------------------------------------- *)
(* State                                                                   *)
(* ---------------------------------------------------------------------- *)

VARIABLES
  disk,          \* the files: path -> bytes
  calls,         \* the calls the caller still makes, in order
  given,         \* what the files on disk were built from
  rets,          \* the outcome of every finished call, in order
  pc,            \* where the running call stands ("idle": none runs)
  path,          \* the path argument of the running call
  pos,           \* the cursor of the file handle the call has open
  header_lines,  \* read_pcd / read_ply: header_lines
  header_info,   \* read_pcd: header_info
  header_size,   \* read_pcd: header_size
  lines,         \* read_pcd ascii: lines[data_start_idx:] not yet visited
  points,        \* points
  i,             \* iterations done of the range(...) loop
  ply            \* read_ply: vertex_count, format_type, properties

vars ==
  << disk, calls, given, rets, pc, path, pos, header_lines, header_info, header_size,
     lines, points, i, ply >>

\* The locals of a call, as they are before it runs and after it is over.
NoLocals ==
  /\ header_lines' = << >>
  /\ header_info' = EmptyDict
  /\ header_size' = 0
  /\ lines' = << >>
  /\ points' = << >>
  /\ i' = 0
  /\ ply' = PlyDefaults

\* The running call ends with outcome r; the handle stays where it was.
Finish(r) ==
  /\ rets' = Append(rets, r)
  /\ pc' = "idle"
  /\ NoLocals
  /\ UNCHANGED << disk, calls, given, path >>

Return(op, pts) == Finish(Returned(op, path, pts))

Raise(op, exc, msg) == Finish(Raised(op, path, exc, msg))

Pending(op) == pc = "idle" /\ calls # << >> /\ Head(calls).op = op

\* A call on a path opens the file first: open() raises when it is absent.
Enter(op, label) ==
  /\ Pending(op)
  /\ calls' = Tail(calls)
  /\ path' = Head(calls).path
  /\ pos' = 0
  /\ NoLocals
  /\ UNCHANGED << disk, given >>
  /\ IF Head(calls).path \in DOMAIN disk
     THEN pc' = label /\ rets' = rets
     ELSE pc' = "idle"
          /\ rets' = Append(rets, Raised(op, Head(calls).path, "FileNotFoundError", ""))

(* ---------------------------------------------------------------------- *)
(* The example driver's loader                                             *)
(* ---------------------------------------------------------------------- *)

\* if path.endswith(".bin") ... elif ".pcd" ... elif ".ply" ... else raise
ReaderFor(p) ==
  IF EndsWith(p, ExtBin) THEN "read_bin"
  ELSE IF EndsWith(p, ExtPcd) THEN "read_pcd"
  ELSE IF EndsWith(p, ExtPly) THEN "read_ply"
  ELSE "none"

DriverLoad ==
  /\ Pending("load")
  /\ UNCHANGED << disk, given, pc, path, pos, header_lines, header_info, header_size,
                  lines, points, i, ply >>
  /\ IF ReaderFor(Head(calls).path) = "none"
     THEN /\ calls' = Tail(calls)
          /\ rets' = Append(rets, Raised("load", Head(calls).path, "ValueError",
                                         "Unsupported file format"))
     ELSE /\ calls' = << [Head(calls) EXCEPT !.op = ReaderFor(Head(calls).path)] >>
                        \o Tail(calls)
          /\ rets' = rets

(* ---------------------------------------------------------------------- *)
(* write_pcd, read_bin                                                     *)
(* ---------------------------------------------------------------------- *)

WritePcd ==
  /\ Pending("write_pcd")
  /\ calls' = Tail(calls)
  /\ path' = Head(calls).path
  /\ \E up \in BOOLEAN :
     \E written \in { WritePcdBytes(Head(calls).points, up) } :
       /\ disk' = Put(disk, Head(calls).path, written)
       /\ pos' = Len(written)
  /\ rets' = Append(rets, Returned("write_pcd", Head(calls).path, << >>))
  /\ UNCHANGED << given, pc, header_lines, header_info, header_size, lines, points, i, ply >>

ReadBin ==
  /\ Pending("read_bin")
  /\ calls' = Tail(calls)
  /\ path' = Head(calls).path
  /\ UNCHANGED << disk, given, pc, header_lines, header_info, header_size, lines, points,
                  i, ply >>
  /\ IF Head(calls).path \notin DOMAIN disk
     THEN /\ rets' = Append(rets, Raised("read_bin", Head(calls).path, "FileNotFoundError", ""))
          /\ pos' = 0
     ELSE \E bs \in { disk[Head(calls).path] } :
          \E scan \in { FromFile(bs) } :
          \E shaped \in { ReshapeRows(scan) } :
              /\ pos' = 4 * (Len(bs) \div 4)
              /\ rets' = Append(rets,
                   IF shaped.ok THEN Returned("read_bin", Head(calls).path, shaped.rows)
                   ELSE Raised("read_bin", Head(calls).path, "ValueError", "cannot reshape"))

(* ---------------------------------------------------------------------- *)
(* read_pcd                                                                *)
(* ---------------------------------------------------------------------- *)

\* At the end of the file readline() returns b'' on every call, and each
\* header loop appends one more '' to header_lines for every such read: the
\* list grows without limit. No break can follow a read of b'', so nothing
\* reads those entries again; the model tells up to MaxEofReads of them apart
\* and lets the count start over beyond that, which makes the unbounded loop
\* a cycle through finitely many states.
MaxEofReads == 2

\* header_lines after appending the stripped text of line.
AppendLine(ls, line) ==
  LET appended == Append(ls, Strip(line))
  IN  IF line = << >> /\ TrailingEmpty(appended) > MaxEofReads
      THEN SubSeq(appended, 1, Len(appended) - MaxEofReads)
      ELSE appended

CallReadPcd == Enter("read_pcd", "pcd_header")

\* One iteration of the while True loop; on break, header_size as well.
PcdHeaderLine ==
  /\ pc = "pcd_header"
  /\ \E line \in { ReadLine(disk[path], pos) } :
     \E line_str \in { Strip(line) } :
     \E st \in { PcdKeyword(line_str, header_info) } :
         IF ~Utf8Decodable(line) THEN
           /\ pos' = pos + Len(line)
           /\ header_size' = HeaderSize(header_lines)
           /\ pc' = "pcd_data"
           /\ UNCHANGED << disk, calls, given, rets, path, header_lines, header_info,
                           lines, points, i, ply >>
         ELSE IF st.exc # "" THEN
           /\ pos' = pos + Len(line)
           /\ Raise("read_pcd", st.exc, "")
         ELSE
           /\ pos' = pos + Len(line)
           /\ header_lines' = AppendLine(header_lines, line)
           /\ header_info' = st.info
           /\ header_size' = IF st.brk THEN HeaderSize(Append(header_lines, line_str)) ELSE 0
           /\ pc' = IF st.brk THEN "pcd_data" ELSE "pcd_header"
           /\ UNCHANGED << disk, calls, given, rets, path, lines, points, i, ply >>

DataMode == ToUpper(Get(header_info, "data", << >>))

\* The ASCII branch up to the point loop: readlines() and data_start_idx.
PcdOpenAscii ==
  /\ pc = "pcd_data"
  /\ DataMode = StrASCII
  /\ IF ~Utf8Decodable(disk[path])
     THEN pos' = pos /\ Raise("read_pcd", "UnicodeDecodeError", "")
     ELSE /\ \E all \in { ReadLinesText(disk[path]) } : lines' = AfterDataLine(all, all)
          /\ pos' = Len(disk[path])
          /\ points' = << >>
          /\ pc' = "pcd_ascii"
          /\ UNCHANGED << disk, calls, given, rets, path, header_lines, header_info,
                          header_size, i, ply >>

\* One iteration of: for line in lines[data_start_idx:]
PcdAsciiLine ==
  /\ pc = "pcd_ascii"
  /\ lines # << >>
  /\ \E line \in { Strip(Head(lines)) } :
     \E values \in { ParseFloats(Split(line)) } :
         IF line # << >> /\ ~AllOk(values) THEN
           pos' = pos /\ Raise("read_pcd", "ValueError", "could not convert string to float")
         ELSE
           /\ lines' = Tail(lines)
           /\ points' = IF line # << >> /\ Len(values) >= 3
                        THEN Append(points, SubSeq(Vals(values), 1, 3))
                        ELSE points
           /\ UNCHANGED << disk, calls, given, rets, pc, path, pos, header_lines,
                           header_info, header_size, i, ply >>

PcdAsciiReturn ==
  /\ pc = "pcd_ascii"
  /\ lines = << >>
  /\ pos' = pos
  /\ Return("read_pcd", points)

\* The binary branch up to the point loop: f.seek(header_size).
PcdOpenBinary ==
  /\ pc = "pcd_data"
  /\ DataMode = StrBINARY
  /\ pos' = header_size
  /\ points' = << >>
  /\ i' = 0
  /\ pc' = "pcd_binary"
  /\ UNCHANGED << disk, calls, given, rets, path, header_lines, header_info, header_size,
                  lines, ply >>

num_points == Get(header_info, "points", 0)

fields == Get(header_info, "fields", << >>)

\* One iteration of: for _ in range(num_points)
PcdBinaryRecord ==
  /\ pc = "pcd_binary"
  /\ i < num_points
  /\ \E xi \in { CoordIndex(fields, StrX, 0) } :
     \E yi \in { CoordIndex(fields, StrY, 1) } :
     \E zi \in { CoordIndex(fields, StrZ, 2) } :
     \E rd \in { ReadFloats(disk[path], pos, Len(fields), TRUE) } :
     \E field_values \in { rd.vals } :
         /\ pos' = rd.pos
         /\ IF Len(field_values) >= 3
               /\ (xi >= Len(field_values) \/ yi >= Len(field_values)
                     \/ zi >= Len(field_values))
            THEN Raise("read_pcd", "IndexError", "list index out of range")
            ELSE /\ points' = IF Len(field_values) >= 3
                              THEN Append(points, << field_values[xi + 1],
                                                     field_values[yi + 1],
                                                     field_values[zi + 1] >>)
                              ELSE points
                 /\ i' = i + 1
                 /\ UNCHANGED << disk, calls, given, rets, pc, path, header_lines,
                                 header_info, header_size, lines, ply >>

PcdBinaryReturn ==
  /\ pc = "pcd_binary"
  /\ i >= num_points
  /\ pos' = pos
  /\ Return("read_pcd", points)

PcdUnsupported ==
  /\ pc = "pcd_data"
  /\ DataMode # StrASCII
  /\ DataMode # StrBINARY
  /\ pos' = pos
  /\ Raise("read_pcd", "ValueError", "Unsupported PCD data format")

(* ---------------------------------------------------------------------- *)
(* read_ply                                                                *)
(* ---------------------------------------------------------------------- *)

CallReadPly == Enter("read_ply", "ply_header")

\* One iteration of the while True loop.
PlyHeaderLine ==
  /\ pc = "ply_header"
  /\ \E line \in { ReadLine(disk[path], pos) } :
         /\ pos' = pos + Len(line)
         /\ IF ~Utf8Decodable(line) THEN Raise("read_ply", "UnicodeDecodeError", "")
            ELSE /\ header_lines' = AppendLine(header_lines, line)
                 /\ pc' = IF Strip(line) = StrEndHeader THEN "ply_parse" ELSE "ply_header"
                 /\ UNCHANGED << disk, calls, given, rets, path, header_info, header_size,
                                 lines, points, i, ply >>

\* From "Parse header information" to points = [].
PlyParseHeader ==
  /\ pc = "ply_parse"
  /\ pos' = pos
  /\ \E scan \in { PlyScan(header_lines, PlyDefaults) } :
         IF scan.exc # "" THEN Raise("read_ply", scan.exc, "")
         ELSE IF MissingCoord(PlyIndex(scan.properties, StrX), PlyIndex(scan.properties, StrY),
                              PlyIndex(scan.properties, StrZ))
         THEN Raise("read_ply", "ValueError", "PLY file must contain x, y, z coordinates")
         ELSE /\ ply' = scan
              /\ points' = << >>
              /\ i' = 0
              /\ pc' = "ply_body"
              /\ UNCHANGED << disk, calls, given, rets, path, header_lines, header_info,
                              header_size, lines >>

x_idx == PlyIndex(ply.properties, StrX)

y_idx == PlyIndex(ply.properties, StrY)

z_idx == PlyIndex(ply.properties, StrZ)

\* Indexing a list with None raises TypeError.
AnyNone == x_idx = None \/ y_idx = None \/ z_idx = None

\* One iteration of the ascii loop: for _ in range(vertex_count)
PlyAsciiVertex ==
  /\ pc = "ply_body"
  /\ ply.format_type = StrAscii
  /\ i < ply.vertex_count
  /\ \E line \in { ReadLine(disk[path], pos) } :
     \E values \in { Split(Strip(line)) } :
     LET take == Len(values) >= Len(ply.properties)
         x == ParseFloat(values[x_idx + 1])
         y == ParseFloat(values[y_idx + 1])
         z == ParseFloat(values[z_idx + 1])
     IN  /\ pos' = pos + Len(line)
         /\ IF ~Utf8Decodable(line) THEN Raise("read_ply", "UnicodeDecodeError", "")
            ELSE IF take /\ AnyNone THEN Raise("read_ply", "TypeError", "")
            ELSE IF take /\ ~(x.ok /\ y.ok /\ z.ok)
            THEN Raise("read_ply", "ValueError", "could not convert string to float")
            ELSE /\ points' = IF take THEN Append(points, << x.val, y.val, z.val >>) ELSE points
                 /\ i' = i + 1
                 /\ UNCHANGED << disk, calls, given, rets, pc, path, header_lines,
                                 header_info, header_size, lines, ply >>

\* One iteration of either binary loop; the format string gives the byte order.
PlyBinaryVertex ==
  /\ pc = "ply_body"
  /\ ply.format_type \in {StrLittle, StrBig}
  /\ i < ply.vertex_count
  /\ \E rd \in { ReadFloats(disk[path], pos, Len(ply.properties),
                              ply.format_type = StrLittle) } :
     \E vertex_data \in { rd.vals } :
         /\ pos' = rd.pos
         /\ IF ~rd.ok THEN Raise("read_ply", "struct.error", "unpack requires a buffer of 4 bytes")
            ELSE IF AnyNone THEN Raise("read_ply", "TypeError", "")
            ELSE /\ points' = Append(points, << vertex_data[x_idx + 1],
                                                vertex_data[y_idx + 1],
                                                vertex_data[z_idx + 1] >>)
                 /\ i' = i + 1
                 /\ UNCHANGED << disk, calls, given, rets, pc, path, header_lines,
                                 header_info, header_size, lines, ply >>

PlyUnsupported ==
  /\ pc = "ply_body"
  /\ ply.format_type \notin {StrAscii, StrLittle, StrBig}
  /\ pos' = pos
  /\ Raise("read_ply", "ValueError", "Unsupported PLY format")

PlyReturn ==
  /\ pc = "ply_body"
  /\ ply.format_type \in {StrAscii, StrLittle, StrBig}
  /\ i >= ply.vertex_count
  /\ pos' = pos
  /\ Return("read_ply", points)

(* ---------------------------------------------------------------------- *)
(* The files and calls the runs start from                                 *)
(* ---------------------------------------------------------------------- *)

\* Largest declared count, record count and point count of an input.
MaxPoints == 2

Counts == 0..MaxPoints

\* ws joined by single spaces.
RECURSIVE Sp(_)
Sp(ws) ==
  IF ws = << >> THEN << >>
  ELSE IF Len(ws) = 1 THEN ws[1]
  ELSE ws[1] \o << 32 >> \o Sp(Tail(ws))

RECURSIVE Concat(_)
Concat(ss) == IF ss = << >> THEN << >> ELSE Head(ss) \o Concat(Tail(ss))

Ln(text) == text \o << 10 >>

\* floor(log2(n)) for n >= 1.
RECURSIVE Log2(_)
Log2(n) == IF n < 2 THEN 0 ELSE 1 + Log2(n \div 2)

\* struct.pack(">f", v) for v a multiple of 2^-7 below 128 in magnitude.
PackBig(v) ==
  LET n == Abs(v) \div 78125
      p == Log2(n)
      e == 120 + p
      m == n * Pow2(23 - p) - 8388608
      s == IF v < 0 THEN 128 ELSE 0
  IN  IF v = 0 THEN << 0, 0, 0, 0 >>
      ELSE << s + (e \div 2), (e % 2) * 128 + (m \div 65536), (m \div 256) % 256, m % 256 >>

Reverse(bs) == [j \in 1..Len(bs) |-> bs[Len(bs) + 1 - j]]

Pack(little, v) == IF little THEN Reverse(PackBig(v)) ELSE PackBig(v)

\* The shortest decimal text of a multiple of one tenth.
Repr(v) ==
  (IF v < 0 THEN << 45 >> ELSE << >>)
    \o IntToStr(Abs(v) \div Unit) \o << 46 >> \o IntToStr((Abs(v) % Unit) \div (Unit \div 10))

\* The value of field f of record j: all different, halves, both signs.
RecVal(j, f) == (IF (j + f) % 2 = 1 THEN -1 ELSE 1) * (10 * j + f) * (Unit \div 2)

RecordOf(j, nf) == [f \in 1..nf |-> RecVal(j, f)]

BinaryRecord(little, j, nf) == Concat([f \in 1..nf |-> Pack(little, RecVal(j, f))])

AsciiRecord(j, nf) == Ln(Sp([f \in 1..nf |-> Repr(RecVal(j, f))]))

BinaryPayload(little, n, nf) == Concat([j \in 1..n |-> BinaryRecord(little, j, nf)])

AsciiPayload(n, nf) == Concat([j \in 1..n |-> AsciiRecord(j, nf)])

CutTail(bs, k) == SubSeq(bs, 1, Len(bs) - k)

StrI == Enc(<< "i", "n", "t", "e", "n", "s", "i", "t", "y" >>)
StrA == Enc(<< "a" >>)
StrB == Enc(<< "b" >>)
StrC == Enc(<< "c" >>)
StrNx == Enc(<< "n", "x" >>)

\* FIELDS lists: the usual one, an extra field behind and in front, another
\* order, no coordinate names, a name missing, too few fields.
PcdFieldLists ==
  { << StrX, StrY, StrZ >>, << StrX, StrY, StrZ, StrI >>, << StrI, StrX, StrY, StrZ >>,
    << StrY, StrX, StrZ >>, << StrA, StrB, StrC >>, << StrA, StrX, StrC >>,
    << StrX, StrY >> }

\* PLY float property lists holding x, y and z, and lists lacking one.
PlyPropLists ==
  { << StrX, StrY, StrZ >>, << StrX, StrY, StrZ, StrNx >>, << StrNx, StrX, StrY, StrZ >>,
    << StrZ, StrY, StrX >> }

PlyLackingLists == { << StrX, StrY >>, << StrY, StrZ, StrNx >>, << StrNx >>, << >> }

PathPcd == Enc(<< "a", ".", "p", "c", "d" >>)
PathPcd2 == Enc(<< "b", ".", "p", "c", "d" >>)
PathPly == Enc(<< "a", ".", "p", "l", "y" >>)
PathPly2 == Enc(<< "b", ".", "p", "l", "y" >>)
PathBin == Enc(<< "a", ".", "b", "i", "n" >>)

\* A PCD header: FIELDS, POINTS, DATA, each line wrapped in lead .. trail.
PcdHeader(names, declared, mode, lead, trail) ==
  Concat(<< lead \o Sp(<< KwFIELDS >> \o names) \o trail,
            lead \o Sp(<< KwPOINTS, IntToStr(declared) >>) \o trail,
            lead \o Sp(<< KwDATA >> \o mode) \o trail >>)

PlainPcdHeader(names, declared, mode) == PcdHeader(names, declared, << mode >>, << >>, << 10 >>)

StrPly == Enc(<< "p", "l", "y" >>)
StrVersion == Enc(<< "1", ".", "0" >>)
StrFloat == Enc(<< "f", "l", "o", "a", "t" >>)
StrProperty == Enc(<< "p", "r", "o", "p", "e", "r", "t", "y" >>)

\* A PLY header: ply, format, element vertex, one property float per name,
\* end_header.
PlyHeader(fmt, declared, names) ==
  Ln(StrPly) \o Ln(Sp(<< StrFormat, fmt, StrVersion >>))
    \o Ln(Sp(<< StrElementVertex, IntToStr(declared) >>))
    \o Concat([j \in 1..Len(names) |-> Ln(Sp(<< StrProperty, StrFloat, names[j] >>))])
    \o Ln(StrEndHeader)

OneFile(p, bs) == [q \in {p} |-> bs]

TwoFiles(p1, bs1, p2, bs2) == [q \in {p1, p2} |-> IF q = p1 THEN bs1 ELSE bs2]

CallOn(op, p) == [op |-> op, path |-> p, points |-> << >>]

\* What a start state is: the disk, the calls to make, and what the files
\* were built from (DATA mode or format, names, declared count, whole records
\* present, bytes cut off the end, length of the header, the points handed to
\* the writer).
Start(kind, mode, d, cs, names, declared, records, cut, hdr, pts) ==
  [disk |-> d, calls |-> cs,
   given |-> [kind |-> kind, mode |-> mode, names |-> names, declared |-> declared, records |-> records,
              cut |-> cut, hdr |-> hdr, pts |-> pts]]


\* A binary PCD file of n records over names, k bytes cut off its end.
PcdBinaryStart(names, declared, n, k) ==
  Start("pcd_binary", StrBinary,
        OneFile(PathPcd, PlainPcdHeader(names, declared, StrBinary)
                           \o CutTail(BinaryPayload(TRUE, n, Len(names)), k)),
        << CallOn("read_pcd", PathPcd) >>,
        names, declared, IF k = 0 THEN n ELSE n - 1, k,
        Len(PlainPcdHeader(names, declared, StrBinary)), << >>)

\* Binary PCD files: any field list, declared count and record count; and
\* those declaring what they were written with, cut by any number of bytes
\* short of one record.
StartPcdBinary ==
  { PcdBinaryStart(names, declared, n, 0) :
      names \in PcdFieldLists, declared \in Counts, n \in Counts }
    \cup UNION { { PcdBinaryStart(names, n, n, k) : k \in 1..(4 * Len(names) - 1) } :
                 names \in PcdFieldLists, n \in 1..MaxPoints }

\* ASCII PCD files: any field list, declared count and record count.
StartPcdAscii ==
  { Start("pcd_ascii", StrAscii,
          OneFile(PathPcd, PlainPcdHeader(names, declared, StrAscii)
                             \o AsciiPayload(n, Len(names))),
          << CallOn("read_pcd", PathPcd) >>,
          names, declared, n, 0, Len(PlainPcdHeader(names, declared, StrAscii)), << >>) :
      names \in PcdFieldLists, declared \in Counts, n \in Counts }

StrCompressed ==
  Enc(<< "b", "i", "n", "a", "r", "y", "_", "c", "o", "m", "p", "r", "e", "s", "s", "e", "d" >>)
StrMixedBinary == Enc(<< "B", "i", "n", "a", "r", "y" >>)

\* DATA lines: the two modes in several cases, another mode, no mode.
DataModes ==
  { << StrAscii >>, << StrBinary >>, << StrASCII >>, << StrMixedBinary >>,
    << StrCompressed >>, << >> }

LinePadding ==
  { << << >>, << 10 >> >>, << << >>, << 13, 10 >> >>, << << >>, << 32, 10 >> >>,
    << << 32 >>, << 10 >> >>, << << 9 >>, << 9, 13, 10 >> >> }

PayloadFor(mode, n, nf) ==
  IF mode # << >> /\ ToUpper(mode[1]) = StrASCII THEN AsciiPayload(n, nf)
  ELSE BinaryPayload(TRUE, n, nf)

\* PCD files over FIELDS x y z whose header lines carry padding or CR LF,
\* with every DATA line of DataModes, one record declared and present.
StartPcdHeader ==
  { Start("pcd_header", Sp(mode),
          OneFile(PathPcd, PcdHeader(<< StrX, StrY, StrZ >>, 1, mode, pad[1], pad[2])
                             \o PayloadFor(mode, 1, 3)),
          << CallOn("read_pcd", PathPcd) >>,
          << StrX, StrY, StrZ >>, 1, 1, 0,
          Len(PcdHeader(<< StrX, StrY, StrZ >>, 1, mode, pad[1], pad[2])), << >>) :
      mode \in DataModes, pad \in LinePadding }

\* PCD files with no DATA line: the file ends, or binary data follows.
StartPcdNoData ==
  { Start("pcd_nodata", << >>,
          OneFile(PathPcd, Ln(Sp(<< KwFIELDS, StrX, StrY, StrZ >>))
                             \o Ln(Sp(<< KwPOINTS, IntToStr(n) >>)) \o tail),
          << CallOn("read_pcd", PathPcd) >>,
          << StrX, StrY, StrZ >>, n, 0, 0, 0, << >>) :
      n \in Counts, tail \in { << >>, BinaryPayload(TRUE, 1, 3) } }

\* Points with coordinates on, between and halfway between the 10^-6 grid.
SamplePoints ==
  { << 0, 0, 0 >>, << 15000004, -15000005, 5 >>, << -4, 1234567895, -999999996 >>,
    << 25, -15, 7 >> }

RECURSIVE SeqsUpTo(_, _)
SeqsUpTo(S, n) ==
  IF n = 0 THEN { << >> }
  ELSE SeqsUpTo(S, n - 1) \cup { Append(q, e) : q \in { r \in SeqsUpTo(S, n - 1) : Len(r) = n - 1 }, e \in S }

\* write_pcd of up to MaxPoints points, then read_pcd of the file written.
StartRoundTrip ==
  { Start("round_trip", StrAscii, EmptyDict,
          << [op |-> "write_pcd", path |-> PathPcd, points |-> pts],
             CallOn("read_pcd", PathPcd) >>,
          << StrX, StrY, StrZ >>, Len(pts), Len(pts), 0, 0, pts) :
      pts \in SeqsUpTo(SamplePoints, MaxPoints) }

\* The same records after DATA ascii in one file, after DATA binary in another.
StartCrossEncoding ==
  { Start("cross_encoding", << >>,
          TwoFiles(PathPcd, PlainPcdHeader(names, n, StrAscii) \o AsciiPayload(n, Len(names)),
                   PathPcd2, PlainPcdHeader(names, n, StrBinary)
                               \o BinaryPayload(TRUE, n, Len(names))),
          << CallOn("read_pcd", PathPcd), CallOn("read_pcd", PathPcd2) >>,
          names, n, n, 0, 0, << >>) :
      names \in PcdFieldLists, n \in Counts }

PlyFormats == { StrAscii, StrLittle, StrBig, StrBinary }

PlyPayload(fmt, n, nf) ==
  IF fmt = StrAscii THEN AsciiPayload(n, nf) ELSE BinaryPayload(fmt # StrBig, n, nf)

PlyRecLen(fmt, n, nf) == IF fmt = StrAscii THEN Len(AsciiRecord(n, nf)) ELSE 4 * nf

\* A PLY file of n vertex records over names, k bytes cut off its end.
PlyStart(fmt, names, declared, n, k) ==
  Start("ply", fmt,
        OneFile(PathPly, PlyHeader(fmt, declared, names)
                           \o CutTail(PlyPayload(fmt, n, Len(names)), k)),
        << CallOn("read_ply", PathPly) >>,
        names, declared, IF k = 0 THEN n ELSE n - 1, k,
        Len(PlyHeader(fmt, declared, names)), << >>)

\* PLY files in every format over every property list with x, y, z, any
\* declared and present vertex count; those declaring what they were written
\* with, cut by any number of bytes short of one record; and files in every
\* format over the lists lacking a coordinate.
StartPly ==
  { PlyStart(fmt, names, declared, n, 0) :
      fmt \in PlyFormats, names \in PlyPropLists, declared \in Counts, n \in Counts }
    \cup UNION { { PlyStart(fmt, names, n, n, k) :
                     k \in 1..(PlyRecLen(fmt, n, Len(names)) - 1) } :
                 fmt \in PlyFormats \ { StrBinary }, names \in PlyPropLists,
                 n \in 1..MaxPoints }
    \cup { PlyStart(fmt, names, declared, n, 0) :
             fmt \in PlyFormats, names \in PlyLackingLists, declared \in Counts,
             n \in { 0, MaxPoints } }

\* The lines of a PLY header up to, and without, end_header.
PlyHeaderOpen(fmt, declared, names) ==
  Ln(StrPly) \o Ln(Sp(<< StrFormat, fmt, StrVersion >>))
    \o Ln(Sp(<< StrElementVertex, IntToStr(declared) >>))
    \o Concat([j \in 1..Len(names) |-> Ln(Sp(<< StrProperty, StrFloat, names[j] >>))])

\* PLY files that end before any end_header line: the header lines alone,
\* and the header lines followed by the vertex records.
StartPlyNoEnd ==
  { Start("ply_noend", fmt,
          OneFile(PathPly, PlyHeaderOpen(fmt, n, << StrX, StrY, StrZ >>)
                             \o (IF body THEN PlyPayload(fmt, n, 3) ELSE << >>)),
          << CallOn("read_ply", PathPly) >>,
          << StrX, StrY, StrZ >>, n, IF body THEN n ELSE 0, 0, 0, << >>) :
      fmt \in { StrAscii, StrLittle }, n \in Counts, body \in BOOLEAN }

\* The same vertex records little-endian in one file, big-endian in another.
StartPlyEndian ==
  { Start("ply_endian", << >>,
          TwoFiles(PathPly, PlyHeader(StrLittle, declared, names)
                              \o BinaryPayload(TRUE, n, Len(names)),
                   PathPly2, PlyHeader(StrBig, declared, names)
                               \o BinaryPayload(FALSE, n, Len(names))),
          << CallOn("read_ply", PathPly), CallOn("read_ply", PathPly2) >>,
          names, declared, n, 0, 0, << >>) :
      names \in PlyPropLists, declared \in Counts, n \in Counts }

\* KITTI files of n rows of four floats, and files with up to three floats
\* and up to three bytes more.
StartBin ==
  { Start("bin", << >>,
          OneFile(PathBin, CutTail(BinaryPayload(TRUE, n + 1, 4), k)),
          << CallOn("read_bin", PathBin) >>,
          << >>, n, n, k, 0, << >>) :
      n \in Counts, k \in 1..16 }

PathUpper == Enc(<< "a", ".", "P", "C", "D" >>)
PathTxt == Enc(<< "a", ".", "t", "x", "t" >>)
PathBak == Enc(<< "a", ".", "p", "c", "d", ".", "b", "a", "k" >>)
PathBare == Enc(<< "p", "c", "d" >>)

\* The paths handed to the driver: the three extensions, and others.
DriverPaths == { PathPcd, PathPly, PathBin, PathUpper, PathTxt, PathBak, PathBare, << >> }

DriverFile(p) ==
  IF ReaderFor(p) = "read_ply"
  THEN PlyHeader(StrLittle, 1, << StrX, StrY, StrZ >>) \o BinaryPayload(TRUE, 1, 3)
  ELSE IF ReaderFor(p) = "read_bin" THEN BinaryPayload(TRUE, 1, 4)
  ELSE PlainPcdHeader(<< StrX, StrY, StrZ >>, 1, StrBinary) \o BinaryPayload(TRUE, 1, 3)

\* The driver loading one path, the file present or not.
StartDriver ==
  { Start("driver", << >>, IF present THEN OneFile(p, DriverFile(p)) ELSE EmptyDict,
          << CallOn("load", p) >>, << StrX, StrY, StrZ >>, 1, 1, 0, 0, << >>) :
      p \in DriverPaths, present \in BOOLEAN }

Starts ==
  StartPcdBinary \cup StartPcdAscii \cup StartPcdHeader \cup StartPcdNoData
    \cup StartRoundTrip \cup StartCrossEncoding \cup StartPly \cup StartPlyNoEnd
    \cup StartPlyEndian \cup StartBin \cup StartDriver

(* ---------------------------------------------------------------------- *)
(* Specification                                                           *)
(* ---------------------------------------------------------------------- *)

Init ==
  \E st \in Starts :
    /\ disk = st.disk
    /\ calls = st.calls
    /\ given = st.given
    /\ rets = << >>
    /\ pc = "idle"
    /\ path = << >>
    /\ pos = 0
    /\ header_lines = << >>
    /\ header_info = EmptyDict
    /\ header_size = 0
    /\ lines = << >>
    /\ points = << >>
    /\ i = 0
    /\ ply = PlyDefaults

Next ==
  \/ DriverLoad
  \/ WritePcd
  \/ ReadBin
  \/ CallReadPcd
  \/ PcdHeaderLine
  \/ PcdOpenAscii
  \/ PcdAsciiLine
  \/ PcdAsciiReturn
  \/ PcdOpenBinary
  \/ PcdBinaryRecord
  \/ PcdBinaryReturn
  \/ PcdUnsupported
  \/ CallReadPly
  \/ PlyHeaderLine
  \/ PlyParseHeader
  \/ PlyAsciiVertex
  \/ PlyBinaryVertex
  \/ PlyUnsupported
  \/ PlyReturn

Spec == Init /\ [][Next]_vars

\* The interpreter runs the statement it is at: a call that can take a step
\* takes it, and the script goes on to its next call.
LiveSpec == Spec /\ WF_vars(Next)

(* ---------------------------------------------------------------------- *)
(* Properties                                                              *)
(* ---------------------------------------------------------------------- *)

IsRead(r) == r.op \in { "read_pcd", "read_ply" }

HasXYZ(names) == Contains(names, StrX) /\ Contains(names, StrY) /\ Contains(names, StrZ)

\* C1: a reader of a file with a declared record count returns no more
\* points than the header declares, however many records the payload holds.
C1_CountWithinDeclared ==
  \A j \in 1..Len(rets) :
    (IsRead(rets[j]) /\ rets[j].kind = "return") => Len(rets[j].points) <= given.declared

\* C2: read_pcd in binary mode and read_ply in its three modes, on a file
\* with a well-formed header whose payload ends before the declared count is
\* reached, return normally; they do not raise.
C2_TruncationNeverRaises ==
  \A j \in 1..Len(rets) :
    ( /\ IsRead(rets[j])
      /\ given.records < given.declared
      /\ \/ given.kind = "pcd_binary"
         \/ given.kind = "ply" /\ given.mode \in { StrAscii, StrLittle, StrBig }
                               /\ HasXYZ(given.names) )
    => rets[j].kind = "return"

\* C3: read_pcd on a binary file of three or more fields that declares as
\* many records as were written, with the payload cut by k bytes, 0 < k < one
\* record, returns exactly POINTS - 1 points and no error.
C3_CutLosesOneRecord ==
  \A j \in 1..Len(rets) :
    (given.kind = "pcd_binary" /\ given.cut > 0 /\ Len(given.names) >= 3)
    => (rets[j].kind = "return" /\ Len(rets[j].points) = given.declared - 1)

\* C4: when the header loop of read_pcd has ended on a DATA line, header_size
\* is the number of bytes read so far, the offset of the first payload byte.
C4_OffsetIsPayloadStart ==
  (pc = "pcd_data" /\ "data" \in DOMAIN header_info) => header_size = pos

\* 1e-6 as a count of 10^-7.
Tolerance == Unit \div 1000000

\* Points p and q agree within tol in every coordinate.
Near(p, q, tol) == \A c \in 1..3 : Abs(p[c] - q[c]) <= tol

\* C5: write_pcd(points, path) followed by read_pcd(path) returns as many
\* points as were written, in order, each coordinate within 1e-6 of the one
\* written.
C5_RoundTrip ==
  (given.kind = "round_trip" /\ Len(rets) = 2)
  => /\ rets[2].kind = "return"
     /\ Len(rets[2].points) = Len(given.pts)
     /\ \A j \in 1..Len(given.pts) : Near(rets[2].points[j], given.pts[j], Tolerance)

\* A round trip of MaxPoints points is over and a coordinate came back changed.
C5_Witness ==
  /\ given.kind = "round_trip"
  /\ Len(rets) = 2
  /\ Len(given.pts) = MaxPoints
  /\ rets[2].kind = "return"
  /\ \E j \in 1..Len(given.pts) : ~Near(rets[2].points[j], given.pts[j], 0)

\* Both reads of a two-file start are over with the same outcome: both
\* returned the same points, or both raised the same error.
SameOutcome ==
  /\ rets[1].kind = rets[2].kind
  /\ rets[1].exc = rets[2].exc
  /\ rets[1].points = rets[2].points

\* C6 as stated: for every FIELDS list, the records after DATA ascii and the
\* same records after DATA binary decode to equal point sequences.
C6_EveryFieldList ==
  (given.kind = "cross_encoding" /\ Len(rets) = 2)
  => (rets[1].kind = "return" /\ SameOutcome)

\* name is absent from names, or its first occurrence is at 0-based index d.
LeadsAt(names, name, d) ==
  \/ ~Contains(names, name)
  \/ Len(names) > d /\ names[d + 1] = name /\ \A k \in 1..d : names[k] # name

\* The positions the ASCII decoder takes are the ones the names resolve to.
PositionalNames(names) ==
  \/ Len(names) < 3
  \/ LeadsAt(names, StrX, 0) /\ LeadsAt(names, StrY, 1) /\ LeadsAt(names, StrZ, 2)

\* C6 amended: the two encodings decode to equal point sequences for the
\* FIELDS lists in which x, y, z, where present, first occur at positions
\* 0, 1, 2, and for lists of fewer than three fields.
C6_PositionalFieldLists ==
  (given.kind = "cross_encoding" /\ Len(rets) = 2 /\ PositionalNames(given.names))
  => (rets[1].kind = "return" /\ SameOutcome)

\* Both encodings of MaxPoints records over x y z and one more field are decoded.
C6_Witness ==
  /\ given.kind = "cross_encoding"
  /\ Len(rets) = 2
  /\ PositionalNames(given.names)
  /\ Len(given.names) > 3
  /\ rets[2].kind = "return"
  /\ Len(rets[2].points) = MaxPoints

\* C7: read_ply of the little-endian file and of the big-endian file with the
\* same header fields and the same vertex records have the same outcome.
C7_EndianEquivalence == (given.kind = "ply_endian" /\ Len(rets) = 2) => SameOutcome

\* Both byte orders of MaxPoints vertices were decoded, x not the first property.
C7_Witness ==
  /\ given.kind = "ply_endian"
  /\ Len(rets) = 2
  /\ rets[1].kind = "return"
  /\ rets[2].kind = "return"
  /\ Len(rets[2].points) = MaxPoints
  /\ given.names[1] # StrX

\* C8: read_ply of a file whose float properties lack x, y or z raises the
\* missing-coordinate ValueError, in every format and for every vertex count,
\* with the cursor at the end of the header: no payload byte was read.  Such a
\* call never enters the vertex loops.
C8_MissingFieldRejected ==
  (given.kind = "ply" /\ ~HasXYZ(given.names))
  => /\ pc # "ply_body"
     /\ \A j \in 1..Len(rets) :
          /\ rets[j].kind = "raise"
          /\ rets[j].exc = "ValueError"
          /\ rets[j].msg = "PLY file must contain x, y, z coordinates"
          /\ pos = given.hdr

\* A binary file lacking z, declaring vertices and holding payload, was rejected.
C8_Witness ==
  /\ given.kind = "ply"
  /\ given.mode = StrBig
  /\ given.names = << StrX, StrY >>
  /\ given.declared = MaxPoints
  /\ given.records = MaxPoints
  /\ Len(rets) = 1
  /\ rets[1].kind = "raise"

Recognized(mode) == ToUpper(mode) \in { StrASCII, StrBINARY }

\* C9: read_pcd of a header whose DATA mode is neither ascii nor binary (any
\* case), also with no mode at all, and read_ply of a format other than the
\* three (x, y, z present), raise the unsupported-format ValueError; the driver
\* raises it for a path that ends in none of .bin, .pcd, .ply.
C9_UnrecognizedIsFormatError ==
  \A j \in 1..Len(rets) :
    /\ (given.kind \in { "pcd_header", "pcd_nodata" } /\ ~Recognized(given.mode))
       => (rets[j].kind = "raise" /\ rets[j].exc = "ValueError"
             /\ rets[j].msg = "Unsupported PCD data format")
    /\ (given.kind = "ply" /\ HasXYZ(given.names)
          /\ given.mode \notin { StrAscii, StrLittle, StrBig })
       => (rets[j].kind = "raise" /\ rets[j].exc = "ValueError"
             /\ rets[j].msg = "Unsupported PLY format")
    /\ (given.kind = "driver" /\ ~(\E ext \in { ExtBin, ExtPcd, ExtPly } :
                                      EndsWith(rets[j].path, ext)))
       => (rets[j].op = "load" /\ rets[j].kind = "raise" /\ rets[j].exc = "ValueError")

\* C10: read_bin of a file of exactly 4*N floats returns N points, point r
\* being the first three floats of row r, in file order.
C10_ReshapeLaw ==
  (given.kind = "bin" /\ Len(rets) = 1 /\ Len(disk[PathBin]) = 16 * given.records)
  => /\ rets[1].kind = "return"
     /\ Len(rets[1].points) = given.records
     /\ \A r \in 1..given.records :
          rets[1].points[r] = << RecVal(r, 1), RecVal(r, 2), RecVal(r, 3) >>

\* A file of MaxPoints whole rows was read.
C10_Witness ==
  /\ given.kind = "bin"
  /\ Len(rets) = 1
  /\ given.records = MaxPoints
  /\ Len(disk[PathBin]) = 16 * MaxPoints
  /\ rets[1].kind = "return"

\* A header loop is running.
InHeaderLoop == pc \in { "pcd_header", "ply_header" }

\* C11: every parse call terminates: the header loop of read_pcd and of
\* read_ply is eventually left, whatever the file holds, and the call that
\* was entered eventually returns or raises.
C11_EveryParseCallTerminates ==
  /\ InHeaderLoop ~> ~InHeaderLoop
  /\ (pc # "idle") ~> (pc = "idle")
====
